---- MODULE Spec2Model ----
(***************************************************************************)
(* Witness tree of the Mina indexer: IndexerState (src/src/state/mod.rs),  *)
(* its store (src/src/store.rs) and the account updates                    *)
(* (src/src/state/ledger/account.rs).                                      *)
(*                                                                         *)
(* A state hash is a natural number; the lexicographic order of hashes is  *)
(* the order of the numbers.  Hash 0 is the parent of the root block and   *)
(* is never the hash of a block.  Node identifiers of a Branch are the     *)
(* positions in its node sequence; 0 is an identifier that is no longer    *)
(* valid.                                                                  *)
(***************************************************************************)
EXTENDS Integers, Sequences, FiniteSets, TLC

VARIABLES best_tip, canonical_tip, diffs_map, root_branch, dangling_branches,
          indexer_store, transition_frontier_length, prune_interval,
          ledger_update_freq, blocks_processed,
          result, last_pb, status, checkpoints, last_prune, env,
          server, receiver, tasks, scratch, log,
          account, last_op, conn

vars == <<best_tip, canonical_tip, diffs_map, root_branch, dangling_branches,
          indexer_store, transition_frontier_length, prune_interval,
          ledger_update_freq, blocks_processed,
          result, last_pb, status, checkpoints, last_prune, env,
          server, receiver, tasks, scratch, log, account, last_op, conn>>

(***************************************************************************)
(* Program constants                                                       *)
(***************************************************************************)
MAINNET_CANONICAL_THRESHOLD == 10
MAINNET_TRANSITION_FRONTIER_K == 290
PRUNE_INTERVAL_DEFAULT == 10

\* Option::None of an Option<u32>
None == 0 - 1

(***************************************************************************)
(* Bounds of the model                                                     *)
(***************************************************************************)
\* hashes 1..SmallLen form the chain of the small block universe
SmallLen == 5
\* cap on blocks_processed in the small universe
MaxBlocks == 6
\* hashes 1..DeepLen form the chain of the deep block universe
DeepLen == 16
\* in the deep universe only the blocks of length up to ReorderLen arrive in any order;
\* a longer block arrives when its length is at most one above the best tip's
ReorderLen == 4
\* ledger_update_freq is drawn from 1..MaxLedgerUpdateFreq
MaxLedgerUpdateFreq == 2
\* transition frontier length k of the deep universe
FrontierK == 12
\* in the small universe with pruning the transition frontier length k is drawn
\* from 1..SmallK
SmallK == 2
\* the block receiver of the server delivers the blocks up to ServerLen, the block
\* of the root hash among them, at most MaxStream items in all
ServerLen == 3
MaxStream == 2
\* at most MaxConns connections are accepted
MaxConns == 2
\* Amount is a u64 and Nonce a u32; the model keeps the wrap-around of both at the
\* widths AmountWidth and NonceWidth
AmountWidth == 3
NonceWidth == 2

(***************************************************************************)
(* Block universe.  Chain blocks h have parent h - 1 and length h; the     *)
(* fork blocks ForkA and ForkB are second children of chain blocks.        *)
(***************************************************************************)
RootHash == 1
ForkA == 101
ForkB == 102
\* a block on top of the fork block ForkB
ForkC == 103
\* two legacy records without a blockchain_length, both children of block 4
LegacyA == 201
LegacyB == 202

ParentOf(h) ==
    IF h \in {ForkA, LegacyA, LegacyB} THEN 4 ELSE IF h = ForkB THEN 2
    ELSE IF h = ForkC THEN ForkB ELSE h - 1

LengthOf(h) ==
    IF h = ForkA THEN 5 ELSE IF h = ForkB THEN 3 ELSE IF h = ForkC THEN 4
    ELSE IF h \in {LegacyA, LegacyB} THEN None ELSE h

RECURSIVE Pow2(_)
Pow2(n) == IF n = 0 THEN 1 ELSE 2 * Pow2(n - 1)

\* the coinbase reward of a block; every block pays a different amount
CoinbaseOf(h) ==
    IF h = ForkA THEN Pow2(17) ELSE IF h = ForkB THEN Pow2(18)
    ELSE IF h = LegacyA THEN Pow2(19) ELSE IF h = LegacyB THEN Pow2(20)
    ELSE IF h = ForkC THEN Pow2(21) ELSE Pow2(h)

PrecomputedBlock(h) ==
    [state_hash |-> h, parent_hash |-> ParentOf(h),
     blockchain_length |-> LengthOf(h), coinbase |-> CoinbaseOf(h)]

unwrap_or_0(opt) == IF opt = None THEN 0 ELSE opt

(***************************************************************************)
(* Ledger: the balance of the coinbase receiver.                           *)
(***************************************************************************)
GenesisLedger == 0

from_coinbase(pre, amount) == pre + amount

LedgerDiff_from_precomputed_block(pb) == pb.coinbase

apply_diff(ledger, diff) == from_coinbase(ledger, diff)

(***************************************************************************)
(* Branch: a sequence of nodes; node 1 is the root and every node comes    *)
(* after its parent (field up, 0 at the root).                             *)
(***************************************************************************)
Block_from_precomputed(pb, height, up) ==
    [state_hash |-> pb.state_hash, parent_hash |-> pb.parent_hash,
     blockchain_length |-> pb.blockchain_length, height |-> height, up |-> up]

Branch_new(pb) == <<Block_from_precomputed(pb, 1, 0)>>

Branch_new_genesis(root_hash) ==
    <<[state_hash |-> root_hash, parent_hash |-> ParentOf(root_hash),
       blockchain_length |-> LengthOf(root_hash), height |-> 1, up |-> 0]>>

root_block(branch) == branch[1]

ValidId(branch, id) == id \in 1..Len(branch)

NodeIdsWithHash(branch, h) == {i \in 1..Len(branch) : branch[i].state_hash = h}

Min(S) == CHOOSE x \in S : \A y \in S : x <= y

Max(S) == CHOOSE x \in S : \A y \in S : x >= y

\* the tree height: the number of levels
Branch_height(branch) == Max({branch[i].height : i \in 1..Len(branch)})

Branch_len(branch) == Len(branch)

leaves(branch) == {i \in 1..Len(branch) : \A j \in 1..Len(branch) : branch[j].up # i}

\* inserts the block under the first node whose state hash is the block's parent hash
simple_extension(branch, pb) ==
    LET parents == NodeIdsWithHash(branch, pb.parent_hash)
    IN  IF parents = {} THEN [some |-> FALSE, branch |-> branch, id |-> 0]
        ELSE LET p == Min(parents)
             IN  [some |-> TRUE,
                  branch |-> Append(branch, Block_from_precomputed(pb, branch[p].height + 1, p)),
                  id |-> Len(branch) + 1]

\* the block becomes the root, the old root its only child; heights are recomputed
new_root(branch, pb) ==
    <<Block_from_precomputed(pb, 1, 0)>> \o
    [j \in 1..Len(branch) |->
        [branch[j] EXCEPT !.height = @ + 1, !.up = @ + 1]]

\* grafts the incoming tree under the junction node; heights are rebased
merge_on(branch, junction_id, incoming) ==
    branch \o
    [j \in 1..Len(incoming) |->
        [incoming[j] EXCEPT
            !.height = @ + branch[junction_id].height,
            !.up = IF @ = 0 THEN junction_id ELSE @ + Len(branch)]]

\* greater (blockchain_length, state_hash) pair
BlockGreater(a, b) ==
    \/ unwrap_or_0(a.blockchain_length) > unwrap_or_0(b.blockchain_length)
    \/ /\ unwrap_or_0(a.blockchain_length) = unwrap_or_0(b.blockchain_length)
       /\ a.state_hash > b.state_hash

best_tip_with_id(branch) ==
    Min({i \in leaves(branch) : \A j \in leaves(branch) : ~BlockGreater(branch[j], branch[i])})

Branch_best_tip(branch) == branch[best_tip_with_id(branch)]

\* the identifiers of the ancestors of a node, parent first, root last
RECURSIVE ancestor_ids(_, _)
ancestor_ids(branch, id) ==
    IF branch[id].up = 0 THEN <<>>
    ELSE <<branch[id].up>> \o ancestor_ids(branch, branch[id].up)

\* the identifiers of the node and of all its descendants
InSubtree(branch, top, id) ==
    id = top \/ top \in {ancestor_ids(branch, id)[n] : n \in 1..Len(ancestor_ids(branch, id))}

traverse_level_order_ids(branch, top) == {i \in 1..Len(branch) : InSubtree(branch, top, i)}

Reverse(s) == [n \in 1..Len(s) |-> s[Len(s) + 1 - n]]

\* state hashes from the root to the best tip
longest_chain(branch) ==
    LET tip == best_tip_with_id(branch)
        up == ancestor_ids(branch, tip)
    IN  Reverse([n \in 1..Len(up) |-> branch[up[n]].state_hash]) \o <<branch[tip].state_hash>>

\* keeps the tip and its k nearest ancestors; the k-th ancestor is the new root
PruneKept(branch, k, tip) ==
    LET up == ancestor_ids(branch, tip)
    IN  {tip} \cup {up[n] : n \in 1..(IF k < Len(up) THEN k ELSE Len(up))}

\* the identifier of a kept node after the prune, 0 for a removed node
PruneRemap(branch, k, tip, id) ==
    IF id \in PruneKept(branch, k, tip)
    THEN Cardinality({j \in PruneKept(branch, k, tip) : j <= id})
    ELSE 0

RECURSIVE SetToSortedSeq(_)
SetToSortedSeq(S) ==
    IF S = {} THEN <<>> ELSE <<Min(S)>> \o SetToSortedSeq(S \ {Min(S)})

prune_transition_frontier(branch, k, tip) ==
    LET kept == SetToSortedSeq(PruneKept(branch, k, tip))
        drop == branch[kept[1]].height - 1
    IN  [n \in 1..Len(kept) |->
            [branch[kept[n]] EXCEPT
                !.height = @ - drop,
                !.up = IF n = 1 THEN 0 ELSE PruneRemap(branch, k, tip, @)]]

(***************************************************************************)
(* IndexerStore: the blocks and ledgers column families and the canonicity *)
(* marks.                                                                  *)
(***************************************************************************)
Put(f, k, v) == [x \in (DOMAIN f) \cup {k} |-> IF x = k THEN v ELSE f[x]]

EmptyMap == [x \in {} |-> 0]

IndexerStore_new == [some |-> TRUE, blocks |-> {}, ledgers |-> EmptyMap, canonicity |-> EmptyMap]

NoStore == [some |-> FALSE, blocks |-> {}, ledgers |-> EmptyMap, canonicity |-> EmptyMap]

\* the write of the block record is lost
store_add_block_lost(store, pb) == store

store_add_block(store, pb) == [store EXCEPT !.blocks = @ \cup {pb.state_hash}]

store_get_block(store, state_hash) == state_hash \in store.blocks

store_add_ledger(store, state_hash, ledger) ==
    [store EXCEPT !.ledgers = Put(@, state_hash, ledger)]

store_has_ledger(store, state_hash) == state_hash \in DOMAIN store.ledgers

store_get_ledger(store, state_hash) == store.ledgers[state_hash]

(***************************************************************************)
(* IndexerState.  The operators below take and return the state as a       *)
(* record S; panicked is set when the code aborts on an unwrap or expect.  *)
(***************************************************************************)
IndexerState_new(root_hash, genesis_ledger, with_store) ==
    [best_tip |-> 1,
     canonical_tip |-> 1,
     diffs_map |-> EmptyMap,
     root_branch |-> Branch_new_genesis(root_hash),
     dangling_branches |-> <<>>,
     indexer_store |-> IF with_store
                       THEN store_add_ledger(IndexerStore_new, root_hash, genesis_ledger)
                       ELSE NoStore,
     blocks_processed |-> 0,
     checkpoints |-> {},
     last_prune |-> [happened |-> FALSE, before |-> 0, height |-> 0, len |-> 0,
                     root |-> 0, tip |-> 0, processed |-> 0],
     write_fails |-> FALSE,
     panicked |-> FALSE]

Panic(S) == [S EXCEPT !.panicked = TRUE]

get_block_from_id(S, node_id) == S.root_branch[node_id]

best_tip_block(S) == get_block_from_id(S, S.best_tip)

canonical_tip_block(S) == get_block_from_id(S, S.canonical_tip)

\* the identifier of the new best tip is not stored
update_best_tip_stale(S) == S

update_best_tip(S) == [S EXCEPT !.best_tip = best_tip_with_id(S.root_branch)]

\* the call of prune_transition_frontier; last_prune records the prune
PruneNow(S, k) ==
    LET pruned == prune_transition_frontier(S.root_branch, k, S.best_tip)
    IN  [S EXCEPT
           !.root_branch = pruned,
           !.best_tip = PruneRemap(S.root_branch, k, S.best_tip, S.best_tip),
           !.canonical_tip = PruneRemap(S.root_branch, k, S.best_tip, S.canonical_tip),
           !.last_prune = [happened |-> TRUE,
                           before |-> Branch_height(S.root_branch),
                           height |-> Branch_height(pruned),
                           len |-> Branch_len(pruned),
                           root |-> root_block(pruned).state_hash,
                           tip |-> best_tip_block(S).state_hash,
                           processed |-> S.blocks_processed]]

\* the root branch is pruned as soon as its height reaches prune_interval * k
prune_root_branch_at_bound(S) ==
    IF transition_frontier_length = None THEN S
    ELSE LET k == transition_frontier_length
             interval == IF prune_interval = None THEN PRUNE_INTERVAL_DEFAULT ELSE prune_interval
         IN  IF Branch_height(S.root_branch) >= interval * k THEN PruneNow(S, k) ELSE S

prune_root_branch(S) ==
    IF transition_frontier_length = None THEN S
    ELSE LET k == transition_frontier_length
             interval == IF prune_interval = None THEN PRUNE_INTERVAL_DEFAULT ELSE prune_interval
         IN  IF Branch_height(S.root_branch) > interval * k THEN PruneNow(S, k) ELSE S

\* the ancestors of the best tip that stay pending, nearest first
PendingIds(S) ==
    LET up == ancestor_ids(S.root_branch, S.best_tip)
    IN  SubSeq(up, 1, IF Len(up) <= MAINNET_CANONICAL_THRESHOLD + 1
                      THEN Len(up) ELSE MAINNET_CANONICAL_THRESHOLD + 1)

NewCanonicalTip(S) ==
    LET up == ancestor_ids(S.root_branch, S.best_tip)
    IN  IF Len(up) > MAINNET_CANONICAL_THRESHOLD + 1
        THEN up[MAINNET_CANONICAL_THRESHOLD + 2]
        ELSE S.canonical_tip

RECURSIVE ApplyDiffs(_, _, _)
ApplyDiffs(ledger, hashes, diffs) ==
    IF hashes = <<>> THEN ledger
    ELSE ApplyDiffs(IF Head(hashes) \in DOMAIN diffs
                    THEN apply_diff(ledger, diffs[Head(hashes)])
                    ELSE ledger,
                    Tail(hashes), diffs)

SeqRange(s) == {s[n] : n \in 1..Len(s)}

MarkCanonicity(store, diffs, canonical_hashes) ==
    [store EXCEPT !.canonicity =
        [h \in (DOMAIN @) \cup (DOMAIN diffs) |->
            IF h \in DOMAIN diffs
            THEN (IF h \in SeqRange(canonical_hashes) THEN "Canonical" ELSE "Orphaned")
            ELSE @[h]]]

update_canonical(S) ==
    IF S.panicked THEN S
    ELSE IF ~ValidId(S.root_branch, S.canonical_tip) THEN Panic(S)
    ELSE
    LET old_canonical_tip_id == S.canonical_tip
        old_canonical_tip_hash == canonical_tip_block(S).state_hash
        pending == PendingIds(S)
        canonical_hashes == Reverse([n \in 1..Len(pending) |->
                                        get_block_from_id(S, pending[n]).state_hash])
        S1 == [S EXCEPT !.canonical_tip = NewCanonicalTip(S)]
        new_hash == canonical_tip_block(S1).state_hash
        checkpoint == best_tip_block(S1).height % ledger_update_freq = 0
        missing == /\ checkpoint
                   /\ S1.indexer_store.some
                   /\ ~store_has_ledger(S1.indexer_store, old_canonical_tip_hash)
        store1 == IF checkpoint /\ S1.indexer_store.some /\ ~missing
                  THEN store_add_ledger(S1.indexer_store, new_hash,
                          ApplyDiffs(store_get_ledger(S1.indexer_store, old_canonical_tip_hash),
                                     canonical_hashes, S1.diffs_map))
                  ELSE S1.indexer_store
        store2 == IF store1.some
                  THEN MarkCanonicity(store1, S1.diffs_map, canonical_hashes)
                  ELSE store1
        removed == {get_block_from_id(S1, i).state_hash :
                        i \in {j \in traverse_level_order_ids(S1.root_branch, old_canonical_tip_id) :
                                 get_block_from_id(S1, j).height <= canonical_tip_block(S1).height}}
    IN  IF missing THEN Panic(S1)
        ELSE [S1 EXCEPT
                !.indexer_store = store2,
                !.checkpoints = IF checkpoint /\ S1.indexer_store.some
                                THEN @ \cup {new_hash} ELSE @,
                !.diffs_map = [h \in (DOMAIN @) \ removed |-> @[h]]]

\* the reverse extension is never recognised
is_reverse_extension_never(branch, pb) == FALSE

is_reverse_extension(branch, pb) == pb.state_hash = root_block(branch).parent_hash

same_block_added_twice(branch, pb) == pb.state_hash = root_block(branch).state_hash

is_length_within_root_bounds(S, pb) ==
    \/ /\ pb.blockchain_length # None
       /\ unwrap_or_0(best_tip_block(S).blockchain_length) + 1 >= pb.blockchain_length
    \/ pb.blockchain_length = None

is_block_already_in_db(S, pb) ==
    IF S.indexer_store.some THEN store_get_block(S.indexer_store, pb.state_hash) ELSE FALSE

\* the sequence without the elements at the positions in idx
RemoveAt(s, idx) ==
    LET keep == SetToSortedSeq((1..Len(s)) \ idx)
    IN  [n \in 1..Len(keep) |-> s[keep[n]]]

\* the loop of root_extension over the dangling branches; it stops at the first
\* branch whose root is the block itself
RECURSIVE RootMergeLoop(_, _, _, _, _, _)
RootMergeLoop(rb, dbs, index, pb, new_node_id, branches_to_remove) ==
    IF index > Len(dbs)
    THEN [root_branch |-> rb, branches_to_remove |-> branches_to_remove, err |-> FALSE]
    ELSE LET rev == is_reverse_extension(dbs[index], pb)
             rb1 == IF rev THEN merge_on(rb, new_node_id, dbs[index]) ELSE rb
             rem1 == IF rev THEN branches_to_remove \cup {index} ELSE branches_to_remove
         IN  IF same_block_added_twice(dbs[index], pb)
             THEN [root_branch |-> rb1, branches_to_remove |-> rem1, err |-> TRUE]
             ELSE RootMergeLoop(rb1, dbs, index + 1, pb, new_node_id, rem1)

\* returns the new state and Some(extension type), "None", "Err" or "Panic"
\* root_extension with the removal of merged branches run even when none was merged
root_extension_removes_first(S, pb) ==
    LET ext == simple_extension(S.root_branch, pb)
    IN  IF ~ext.some THEN [state |-> S, ret |-> "None"]
        ELSE
        LET S1 == update_canonical(update_best_tip([S EXCEPT !.root_branch = ext.branch]))
            loop == RootMergeLoop(S1.root_branch, S1.dangling_branches, 1, pb, ext.id, {})
            S2 == [S1 EXCEPT !.root_branch = loop.root_branch]
            S3 == [S2 EXCEPT !.dangling_branches =
                      RemoveAt(@, IF loop.branches_to_remove = {} THEN {1}
                                  ELSE loop.branches_to_remove)]
            S4 == update_canonical(update_best_tip(S3))
        IN  IF S1.panicked THEN [state |-> S1, ret |-> "Panic"]
            ELSE IF loop.err THEN [state |-> S2, ret |-> "Err"]
            ELSE IF loop.branches_to_remove # {}
                 THEN (IF S4.panicked THEN [state |-> S4, ret |-> "Panic"]
                       ELSE [state |-> S4, ret |-> "RootComplex"])
                 ELSE [state |-> S3, ret |-> "RootSimple"]

root_extension(S, pb) ==
    LET ext == simple_extension(S.root_branch, pb)
    IN  IF ~ext.some THEN [state |-> S, ret |-> "None"]
        ELSE
        LET S1 == update_canonical(update_best_tip([S EXCEPT !.root_branch = ext.branch]))
            loop == RootMergeLoop(S1.root_branch, S1.dangling_branches, 1, pb, ext.id, {})
            S2 == [S1 EXCEPT !.root_branch = loop.root_branch]
            S3 == [S2 EXCEPT !.dangling_branches = RemoveAt(@, loop.branches_to_remove)]
            S4 == update_canonical(update_best_tip(S3))
        IN  IF S1.panicked THEN [state |-> S1, ret |-> "Panic"]
            ELSE IF loop.err THEN [state |-> S2, ret |-> "Err"]
            ELSE IF loop.branches_to_remove # {}
                 THEN (IF S4.panicked THEN [state |-> S4, ret |-> "Panic"]
                       ELSE [state |-> S4, ret |-> "RootComplex"])
                 ELSE [state |-> S2, ret |-> "RootSimple"]

\* one dangling branch of the loop of dangling_extension
TryBranch(branch, pb) ==
    IF is_reverse_extension(branch, pb)
    THEN [kind |-> "ext", branch |-> new_root(branch, pb), id |-> 1, direction |-> "Reverse"]
    ELSE LET fwd == simple_extension(branch, pb)
         IN  IF fwd.some
             THEN [kind |-> "ext", branch |-> fwd.branch, id |-> fwd.id, direction |-> "Forward"]
             ELSE IF same_block_added_twice(branch, pb)
                  THEN [kind |-> "err", branch |-> branch, id |-> 0, direction |-> "None"]
                  ELSE [kind |-> "skip", branch |-> branch, id |-> 0, direction |-> "None"]

LengthWithinDanglingBounds(branch, pb) ==
    LET min_length == unwrap_or_0(root_block(branch).blockchain_length)
        max_length == unwrap_or_0(Branch_best_tip(branch).blockchain_length)
    IN  IF pb.blockchain_length # None
        THEN max_length + 1 >= pb.blockchain_length /\ pb.blockchain_length + 1 >= min_length
        ELSE TRUE

RECURSIVE DanglingLoop(_, _, _)
DanglingLoop(dbs, index, pb) ==
    IF index > Len(dbs)
    THEN [kind |-> "none", branches |-> dbs, index |-> 0, id |-> 0, direction |-> "None"]
    ELSE IF ~LengthWithinDanglingBounds(dbs[index], pb)
         THEN DanglingLoop(dbs, index + 1, pb)
         ELSE LET try == TryBranch(dbs[index], pb)
              IN  IF try.kind = "skip" THEN DanglingLoop(dbs, index + 1, pb)
                  ELSE [kind |-> try.kind,
                        branches |-> [dbs EXCEPT ![index] = try.branch],
                        index |-> index, id |-> try.id, direction |-> try.direction]

dangling_extension(S, pb) == DanglingLoop(S.dangling_branches, 1, pb)

\* the position used for the n-th branch to update (n counts from 0) once the
\* extended branch has been removed
UpdateIndex(extended_branch_index, dangling_branch_index, n) ==
    IF extended_branch_index < dangling_branch_index
    THEN dangling_branch_index - n - 1
    ELSE dangling_branch_index

RECURSIVE UpdateLoop(_, _, _, _, _, _)
UpdateLoop(extended, dbs, to_update, n, extended_branch_index, new_node_id) ==
    IF n >= Len(to_update)
    THEN [panicked |-> FALSE, extended |-> extended, branches |-> dbs]
    ELSE LET index == UpdateIndex(extended_branch_index, to_update[n + 1], n)
         IN  IF ~(index \in 1..Len(dbs))
             THEN [panicked |-> TRUE, extended |-> extended, branches |-> dbs]
             ELSE IF root_block(dbs[index]).parent_hash # extended[new_node_id].state_hash
             THEN [panicked |-> TRUE, extended |-> extended, branches |-> dbs]
             ELSE UpdateLoop(merge_on(extended, new_node_id, dbs[index]),
                             RemoveAt(dbs, {index}), to_update, n + 1,
                             extended_branch_index, new_node_id)

update_dangling(S, pb, extended_branch_index, new_node_id, direction) ==
    LET dbs == S.dangling_branches
        branches_to_update ==
            SetToSortedSeq({i \in 1..Len(dbs) : pb.state_hash = root_block(dbs[i]).parent_hash})
        loop == UpdateLoop(dbs[extended_branch_index], RemoveAt(dbs, {extended_branch_index}),
                           branches_to_update, 0, extended_branch_index, new_node_id)
    IN  IF branches_to_update # <<>>
        THEN IF loop.panicked
             THEN [state |-> Panic([S EXCEPT !.dangling_branches = loop.branches]),
                   ret |-> "Panic"]
             ELSE [state |-> [S EXCEPT !.dangling_branches = Append(loop.branches, loop.extended)],
                   ret |-> "DanglingComplex"]
        ELSE [state |-> S,
              ret |-> IF direction = "Forward" THEN "DanglingSimpleForward"
                      ELSE "DanglingSimpleReverse"]

new_dangling(S, pb) ==
    [state |-> [S EXCEPT !.dangling_branches = Append(@, Branch_new(pb))],
     ret |-> "DanglingNew"]

add_block(S, pb) ==
    LET S0 == prune_root_branch(S)
        S1 == [S0 EXCEPT
                 !.indexer_store = IF @.some THEN store_add_block(@, pb) ELSE @,
                 !.blocks_processed = @ + 1]
        root == IF is_length_within_root_bounds(S1, pb)
                THEN root_extension(S1, pb)
                ELSE [state |-> S1, ret |-> "None"]
        dang == dangling_extension(S1, pb)
        S2 == [S1 EXCEPT !.dangling_branches = dang.branches]
        S3 == [S1 EXCEPT !.diffs_map =
                  Put(@, pb.state_hash, LedgerDiff_from_precomputed_block(pb))]
    IN  IF is_block_already_in_db(S0, pb) THEN [state |-> S0, ret |-> "BlockNotAdded"]
        ELSE IF S0.indexer_store.some /\ S0.write_fails
             THEN [state |-> S0, ret |-> "StoreErr"]
        ELSE IF root.ret # "None" THEN root
        ELSE IF dang.kind = "err" THEN [state |-> S1, ret |-> "Err"]
        ELSE IF dang.kind = "ext"
             THEN update_dangling(S2, pb, dang.index, dang.id, dang.direction)
        ELSE new_dangling(S3, pb)

(***************************************************************************)
(* The state machine                                                       *)
(***************************************************************************)
State ==
    [best_tip |-> best_tip, canonical_tip |-> canonical_tip, diffs_map |-> diffs_map,
     root_branch |-> root_branch, dangling_branches |-> dangling_branches,
     indexer_store |-> indexer_store, blocks_processed |-> blocks_processed,
     checkpoints |-> checkpoints, last_prune |-> last_prune,
     write_fails |-> FALSE, panicked |-> FALSE]

SmallInputs == (2..SmallLen) \cup {ForkA, ForkB}

DeepInputs == (2..DeepLen) \cup {ForkB}

ForkInputs == DeepInputs \cup {ForkC}

LegacyInputs == (2..SmallLen) \cup {LegacyA, LegacyB}

InitState(with_store) ==
    LET S == IndexerState_new(RootHash, GenesisLedger, with_store)
    IN  /\ best_tip = S.best_tip
        /\ canonical_tip = S.canonical_tip
        /\ diffs_map = S.diffs_map
        /\ root_branch = S.root_branch
        /\ dangling_branches = S.dangling_branches
        /\ indexer_store = S.indexer_store
        /\ blocks_processed = S.blocks_processed
        /\ checkpoints = S.checkpoints
        /\ last_prune = S.last_prune
        /\ result = "None"
        /\ last_pb = 0
        /\ status = "running"

\* no request is being read
ConnOff == conn = [stream |-> <<>>, known |-> FALSE, outcome |-> "off", written |-> FALSE]

\* no account is being updated
AccountOff ==
    /\ account = [public_key |-> 0, balance |-> 0, nonce |-> 0, delegate |-> None]
    /\ last_op = [name |-> "none", amount |-> 0, deduction |-> FALSE, delegate |-> None,
                  pre |-> account, some |-> FALSE]

\* the indexer state is driven directly; no server loop runs
ServerOff ==
    /\ server = "off"
    /\ receiver = [queue |-> <<>>, closed |-> FALSE, count |-> 0]
    /\ tasks = <<>>
    /\ scratch = {}
    /\ log = [delivered |-> <<>>, applied |-> <<>>]

\* small universe, any arrival order, with or without a store, never pruned
Init ==
    /\ ServerOff
    /\ AccountOff
    /\ ConnOff
    /\ \E with_store \in BOOLEAN : InitState(with_store)
    /\ transition_frontier_length = None
    /\ prune_interval = None
    /\ ledger_update_freq \in 1..MaxLedgerUpdateFreq
    /\ env = [inputs |-> SmallInputs, reorder |-> DeepLen, reverse |-> FALSE,
              faults |-> FALSE, cap |-> MaxBlocks]

\* deep universe with a store, bounded reordering, with or without pruning
InitDeep ==
    /\ ServerOff
    /\ AccountOff
    /\ ConnOff
    /\ InitState(TRUE)
    /\ transition_frontier_length \in {None, FrontierK}
    /\ prune_interval = 1
    /\ ledger_update_freq \in 1..MaxLedgerUpdateFreq
    /\ env = [inputs |-> DeepInputs, reorder |-> ReorderLen, reverse |-> FALSE,
              faults |-> FALSE, cap |-> DeepLen + 1]

\* small universe with a small transition frontier and failing store writes, and the
\* deep universe pruned at FrontierK
InitPrune ==
    \/ /\ ServerOff
       /\ AccountOff
       /\ ConnOff
       /\ \E with_store \in BOOLEAN : InitState(with_store)
       /\ transition_frontier_length \in 1..SmallK
       /\ prune_interval = 1
       /\ ledger_update_freq = 1
       /\ env = [inputs |-> SmallInputs, reorder |-> DeepLen, reverse |-> FALSE,
                 faults |-> TRUE, cap |-> MaxBlocks]
    \/ /\ ServerOff
       /\ AccountOff
       /\ ConnOff
       /\ InitState(TRUE)
       /\ transition_frontier_length = FrontierK
       /\ prune_interval = 1
       /\ ledger_update_freq = 1
       /\ env = [inputs |-> DeepInputs, reorder |-> ReorderLen, reverse |-> FALSE,
                 faults |-> FALSE, cap |-> DeepLen + 1]

\* deep universe where the chain may also arrive from its last block downwards
InitReverse ==
    /\ ServerOff
    /\ AccountOff
    /\ ConnOff
    /\ InitState(TRUE)
    /\ transition_frontier_length \in {None, FrontierK}
    /\ prune_interval = 1
    /\ ledger_update_freq \in 1..MaxLedgerUpdateFreq
    /\ env = [inputs |-> DeepInputs, reorder |-> 0, reverse |-> TRUE,
              faults |-> FALSE, cap |-> DeepLen + 1]

\* deep universe with a two-block fork that may arrive late, with a store, never pruned
InitFork ==
    /\ ServerOff
    /\ AccountOff
    /\ ConnOff
    /\ InitState(TRUE)
    /\ transition_frontier_length = None
    /\ prune_interval = None
    /\ ledger_update_freq = 1
    /\ env = [inputs |-> ForkInputs, reorder |-> ReorderLen, reverse |-> FALSE,
              faults |-> FALSE, cap |-> DeepLen + 1]

\* small universe with the two legacy records, any arrival order, never pruned
InitLegacy ==
    /\ ServerOff
    /\ AccountOff
    /\ ConnOff
    /\ \E with_store \in BOOLEAN : InitState(with_store)
    /\ transition_frontier_length = None
    /\ prune_interval = None
    /\ ledger_update_freq = 1
    /\ env = [inputs |-> LegacyInputs, reorder |-> DeepLen, reverse |-> FALSE,
              faults |-> FALSE, cap |-> MaxBlocks]

AddBlock(h) ==
    /\ status = "running"
    /\ h \in env.inputs
    /\ blocks_processed < env.cap
    /\ \/ LengthOf(h) <= env.reorder
       \/ LengthOf(h) <= unwrap_or_0(best_tip_block(State).blockchain_length) + 1
       \/ /\ env.reverse
          /\ \/ dangling_branches = <<>> /\ h = DeepLen
             \/ \E n \in 1..Len(dangling_branches) :
                   root_block(dangling_branches[n]).parent_hash = h
    /\ \E write_fails \in (IF env.faults /\ indexer_store.some THEN BOOLEAN ELSE {FALSE}) :
       \E r \in {add_block([State EXCEPT !.write_fails = write_fails], PrecomputedBlock(h))} :
           /\ best_tip' = r.state.best_tip
           /\ canonical_tip' = r.state.canonical_tip
           /\ diffs_map' = r.state.diffs_map
           /\ root_branch' = r.state.root_branch
           /\ dangling_branches' = r.state.dangling_branches
           /\ indexer_store' = r.state.indexer_store
           /\ blocks_processed' = r.state.blocks_processed
           /\ checkpoints' = r.state.checkpoints
           /\ last_prune' = r.state.last_prune
           /\ result' = r.ret
           /\ status' = IF r.ret = "Panic" THEN "panicked" ELSE "running"
    /\ last_pb' = h
    /\ UNCHANGED <<transition_frontier_length, prune_interval, ledger_update_freq, env>>
    /\ UNCHANGED <<server, receiver, tasks, scratch, log, account, last_op, conn>>

Next == \E h \in SmallInputs \cup ForkInputs \cup LegacyInputs : AddBlock(h)

Spec == Init /\ [][Next]_vars

SpecDeep == InitDeep /\ [][Next]_vars

SpecPrune == InitPrune /\ [][Next]_vars

SpecReverse == InitReverse /\ [][Next]_vars

SpecLegacy == InitLegacy /\ [][Next]_vars

SpecFork == InitFork /\ [][Next]_vars

(***************************************************************************)
(* Properties                                                              *)
(***************************************************************************)
Running == status = "running"

\* the branches of the forest, the root branch first
Forest == <<root_branch>> \o dangling_branches

\* the number of nodes of the forest that hold the state hash
Holders(h) ==
    LET RECURSIVE Count(_)
        Count(n) == IF n = 0 THEN 0
                    ELSE Cardinality(NodeIdsWithHash(Forest[n], h)) + Count(n - 1)
    IN  Count(Len(Forest))

ForestHashes == UNION {{Forest[n][i].state_hash : i \in 1..Len(Forest[n])} : n \in 1..Len(Forest)}

\* C1: no state hash is held by more than one node of the forest, neither twice in
\* one branch nor in two branches.
C1_StateHashHeldOnce == \A h \in ForestHashes : Holders(h) <= 1

\* C2: every dangling branch is non-empty and the parent hash of its root is not the
\* state hash of any node of the forest.
C2_DanglingRootParentAbsent ==
    Running =>
        \A n \in 1..Len(dangling_branches) :
            /\ Len(dangling_branches[n]) > 0
            /\ root_block(dangling_branches[n]).parent_hash \notin ForestHashes

CanonicalDepth ==
    LET up == ancestor_ids(root_branch, best_tip)
        at == {n \in 1..Len(up) : up[n] = canonical_tip}
    IN  IF canonical_tip = best_tip THEN 0
        ELSE IF at = {} THEN None
        ELSE Min(at)

\* C4: canonical_tip is best_tip or an ancestor of it, exactly
\* min(MAINNET_CANONICAL_THRESHOLD, best_tip.height - 1) parent steps above best_tip.
C4_CanonicalTipDepth ==
    Running =>
        /\ ValidId(root_branch, best_tip)
        /\ ValidId(root_branch, canonical_tip)
        /\ CanonicalDepth =
              (IF root_branch[best_tip].height - 1 < MAINNET_CANONICAL_THRESHOLD
               THEN root_branch[best_tip].height - 1
               ELSE MAINNET_CANONICAL_THRESHOLD)

\* C5: diffs_map has an entry for every block of the root branch above canonical_tip
\* and for every block of every dangling branch.
C5_DiffsCoverPendingBlocks ==
    (Running /\ ValidId(root_branch, canonical_tip)) =>
        /\ \A i \in 1..Len(root_branch) :
              root_branch[i].height > root_branch[canonical_tip].height
                  => root_branch[i].state_hash \in DOMAIN diffs_map
        /\ \A n \in 1..Len(dangling_branches) : \A i \in 1..Len(dangling_branches[n]) :
              dangling_branches[n][i].state_hash \in DOMAIN diffs_map

\* the root ledger with the diffs of the blocks from the root (exclusive) to h
\* (inclusive) applied once each
RECURSIVE LedgerAt(_)
LedgerAt(h) ==
    IF h = RootHash THEN GenesisLedger
    ELSE apply_diff(LedgerAt(ParentOf(h)), LedgerDiff_from_precomputed_block(PrecomputedBlock(h)))

\* C6: every ledger the store holds for a block h is the root ledger with exactly the
\* diffs of the blocks on the path from the root to h applied.
C6_StoredLedgerIsPathLedger ==
    indexer_store.some =>
        \A h \in DOMAIN indexer_store.ledgers : indexer_store.ledgers[h] = LedgerAt(h)

\* C7: the store holds the precomputed record of every block marked canonical and a
\* ledger for every canonical tip chosen when best_tip.height % ledger_update_freq = 0.
C7_CanonicalRecordsAndCheckpointLedgers ==
    (Running /\ indexer_store.some) =>
        /\ \A h \in DOMAIN indexer_store.canonicity :
              indexer_store.canonicity[h] = "Canonical" => h \in indexer_store.blocks
        /\ \A h \in checkpoints : h \in DOMAIN indexer_store.ledgers

\* a promotion moved canonical_tip off the root at a checkpoint and a block is marked
\* canonical
C7_Witness ==
    /\ Running
    /\ indexer_store.some
    /\ \E h \in checkpoints : h # RootHash
    /\ \E h \in DOMAIN indexer_store.canonicity : indexer_store.canonicity[h] = "Canonical"

ForestUnchanged ==
    UNCHANGED <<root_branch, dangling_branches, best_tip, canonical_tip, diffs_map>>

\* C8: add_block of a block the store already holds returns BlockNotAdded and changes
\* nothing, also when the root branch is due for pruning.
C8_DuplicateChangesNothing ==
    [][(Running /\ indexer_store.some /\ last_pb' \in indexer_store.blocks)
          => /\ result' = "BlockNotAdded"
             /\ ForestUnchanged
             /\ UNCHANGED <<blocks_processed, indexer_store>>]_vars

\* C9: add_block of the block of the previous call returns BlockNotAdded and leaves
\* the forest as the previous call left it.
C9_AddBlockIdempotent ==
    [][(Running /\ last_pb' = last_pb)
          => (result' = "BlockNotAdded" /\ ForestUnchanged)]_vars

\* C10: blocks_processed is the number of distinct state hashes accepted into the
\* forest.
C10_BlocksProcessedCountsAccepted ==
    Running => blocks_processed = Cardinality(ForestHashes \ {RootHash})

\* the seven values of ExtensionType
ExtensionType ==
    {"DanglingNew", "DanglingSimpleForward", "DanglingSimpleReverse", "DanglingComplex",
     "RootSimple", "RootComplex", "BlockNotAdded"}

\* C11: every add_block call returns one of the seven extension types; it never
\* returns an error and never aborts.
C11_DispatchTotal == last_pb # 0 => result \in ExtensionType

HashesOf(branch) == {branch[i].state_hash : i \in 1..Len(branch)}

\* the ancestry of the block reaches the root through blocks of the forest
RECURSIVE ReachesRoot(_)
ReachesRoot(h) ==
    \/ h = RootHash
    \/ /\ h # 0
       /\ ParentOf(h) \in ForestHashes \cup {RootHash}
       /\ ReachesRoot(ParentOf(h))

\* C12: in whatever order the blocks arrived, the root branch is the tree of exactly
\* the blocks whose ancestry reaches the root, each under its parent, and none of
\* them is in a dangling branch.
C12_OrderIndependentRootBranch ==
    Running =>
        /\ HashesOf(root_branch) = {h \in ForestHashes : ReachesRoot(h)}
        /\ \A i \in 2..Len(root_branch) :
              /\ ValidId(root_branch, root_branch[i].up)
              /\ root_branch[root_branch[i].up].state_hash = root_branch[i].parent_hash
        /\ \A n \in 1..Len(dangling_branches) :
              \A h \in HashesOf(dangling_branches[n]) : ~ReachesRoot(h)

\* a branch as a set of (state hash, state hash of the parent node) pairs
AbstractTree(branch) ==
    {<<branch[i].state_hash,
       IF ValidId(branch, branch[i].up) THEN branch[branch[i].up].state_hash ELSE 0>> :
        i \in 1..Len(branch)}

\* the forest up to the order of the dangling list and the node identifiers
AbstractForest(S) ==
    [root |-> AbstractTree(S.root_branch),
     dangling |-> {AbstractTree(S.dangling_branches[n]) : n \in 1..Len(S.dangling_branches)}]

Swap(s, i, j) ==
    [n \in 1..Len(s) |-> IF n = i THEN s[j] ELSE IF n = j THEN s[i] ELSE s[n]]

\* the positions of the dangling branches whose root is a child of the block
Bridged(h) ==
    {n \in 1..Len(dangling_branches) : root_block(dangling_branches[n]).parent_hash = h}

\* C13: when the added block is the parent of the roots of two dangling branches and
\* its own parent is in the forest, the call returns the same value and leaves the
\* same forest wherever in the dangling list those two branches stand.
C13_BridgeBlockLaw ==
    [][(/\ Running
        /\ last_pb' \notin ForestHashes
        /\ ParentOf(last_pb') \in ForestHashes
        /\ Cardinality(Bridged(last_pb')) >= 2)
          => \A i \in Bridged(last_pb'), j \in 1..Len(dangling_branches) :
                \E r \in {add_block([State EXCEPT !.dangling_branches = Swap(@, i, j)],
                                    PrecomputedBlock(last_pb'))} :
                    /\ r.ret = result'
                    /\ AbstractForest(r.state) = AbstractForest(State')]_vars

\* a branch that is one chain of consecutive lengths, stored root first
IsChain(branch) ==
    \A i \in 1..Len(branch) :
        /\ branch[i].up = i - 1
        /\ branch[i].blockchain_length = root_block(branch).blockchain_length + i - 1

\* C14: with only the root in the root branch, the first block of a chain delivered
\* in reverse returns DanglingNew, every later block but the child of the root returns
\* DanglingSimpleReverse and becomes the root of the single dangling branch, and the
\* child of the root returns RootComplex, empties the dangling list and makes the
\* longest chain the root followed by the whole chain.
C14_ReverseDelivery ==
    [][(/\ Running
        /\ Len(root_branch) = 1
        /\ last_pb' \notin ForestHashes
        /\ \/ dangling_branches = <<>> /\ ParentOf(last_pb') # RootHash
           \/ /\ Len(dangling_branches) = 1
              /\ IsChain(dangling_branches[1])
              /\ root_block(dangling_branches[1]).parent_hash = last_pb')
          => IF dangling_branches = <<>>
             THEN /\ result' = "DanglingNew"
                  /\ dangling_branches' = <<Branch_new(PrecomputedBlock(last_pb'))>>
             ELSE IF ParentOf(last_pb') # RootHash
             THEN /\ result' = "DanglingSimpleReverse"
                  /\ Len(dangling_branches') = 1
                  /\ IsChain(dangling_branches'[1])
                  /\ root_block(dangling_branches'[1]).state_hash = last_pb'
                  /\ Len(dangling_branches'[1]) = Len(dangling_branches[1]) + 1
             ELSE /\ result' = "RootComplex"
                  /\ dangling_branches' = <<>>
                  /\ longest_chain(root_branch') =
                        <<RootHash, last_pb'>> \o
                        [i \in 1..Len(dangling_branches[1]) |->
                            dangling_branches[1][i].state_hash]]_vars

\* the tip of the chain arrived first (it alone went through the new-dangling path),
\* the child of the root arrived last and joined the whole chain to the root
C14_Witness ==
    /\ Running
    /\ result = "RootComplex"
    /\ ParentOf(last_pb) = RootHash
    /\ dangling_branches = <<>>
    /\ IsChain(root_branch)
    /\ Len(root_branch) >= DeepLen
    /\ blocks_processed = Len(root_branch) - 1
    /\ DOMAIN diffs_map = {root_branch[Len(root_branch)].state_hash}

PruneInterval == IF prune_interval = None THEN PRUNE_INTERVAL_DEFAULT ELSE prune_interval

\* the n-th ancestor of the block
RECURSIVE NthParent(_, _)
NthParent(h, n) == IF n = 0 THEN h ELSE NthParent(ParentOf(h), n - 1)

\* the latest prune was due and kept the best tip and its k nearest ancestors
PruneWasDueAndKeptFrontier ==
    /\ transition_frontier_length # None
    /\ last_prune.before > PruneInterval * transition_frontier_length
    /\ last_prune.height = transition_frontier_length + 1
    /\ last_prune.len = transition_frontier_length + 1
    /\ last_prune.root = NthParent(last_prune.tip, transition_frontier_length)

C16_StoreFailureChangesNothing ==
    [][(Running /\ result' = "StoreErr")
          => (ForestUnchanged /\ UNCHANGED blocks_processed)]_vars

(***************************************************************************)
(* The server: the select loop of run, the connection tasks it spawns and  *)
(* the runtime that owns them.  The listener and the opening of the        *)
(* read-only secondary are taken to succeed.                               *)
(***************************************************************************)
\* what the block receiver yields: a parsed block or an error
Items == {[ok |-> TRUE, block |-> h] : h \in RootHash..ServerLen} \cup {[ok |-> FALSE, block |-> 0]}

\* an argument that does not parse
Unparsable == 0 - 2

\* a request as the handler splits it: the command and the piece after the first space
\* (None: there is no such piece)
Requests ==
    {[command |-> "summary", arg |-> None], [command |-> "bad", arg |-> None],
     [command |-> "account", arg |-> None],
     [command |-> "best_ledger", arg |-> 1],
     [command |-> "best_chain", arg |-> Unparsable]}
        \cup {[command |-> "best_chain", arg |-> n] : n \in 1..2}

Summary(S) ==
    [blocks_processed |-> S.blocks_processed,
     best_tip_hash |-> best_tip_block(S).state_hash,
     root_hash |-> root_block(S.root_branch).state_hash,
     root_height |-> Branch_height(S.root_branch),
     root_length |-> Branch_len(S.root_branch),
     num_leaves |-> Cardinality(leaves(S.root_branch)),
     num_dangling |-> Len(S.dangling_branches),
     max_dangling_height |->
         Max({0} \cup {Branch_height(S.dangling_branches[n]) : n \in 1..Len(S.dangling_branches)}),
     max_dangling_length |->
         Max({0} \cup {Branch_len(S.dangling_branches[n]) : n \in 1..Len(S.dangling_branches)})]

\* the ledger of the best tip of the root branch
best_tip_ledger(S) == LedgerAt(Branch_best_tip(S.root_branch).state_hash)

\* what the accept arm computes from the indexer state and moves into the task
ServerSnapshot(S) ==
    [best_chain |-> longest_chain(S.root_branch),
     ledger |-> best_tip_ledger(S),
     summary |-> Summary(S)]

NoSummary == Summary(IndexerState_new(RootHash, GenesisLedger, FALSE))

\* written: something was written to the client
NoResponse ==
    [outcome |-> "none", written |-> FALSE, chain |-> <<>>, ledger |-> None,
     summary |-> NoSummary]

Take(s, n) == SubSeq(s, 1, IF n < Len(s) THEN n ELSE Len(s))

\* the handler of one connection: what it answers from the values it was given and the
\* blocks its secondary view of the store holds
handle_conn(request, snapshot, view) ==
    IF request.command = "summary"
    THEN [NoResponse EXCEPT !.outcome = "done", !.written = TRUE, !.summary = snapshot.summary]
    ELSE IF request.command \notin {"account", "best_chain", "best_ledger"}
    THEN [NoResponse EXCEPT !.outcome = "failed"]
    ELSE IF request.arg = None THEN [NoResponse EXCEPT !.outcome = "panicked"]
    ELSE IF request.arg = Unparsable THEN [NoResponse EXCEPT !.outcome = "failed"]
    ELSE IF request.command = "best_chain"
    THEN LET hashes == Take(SubSeq(snapshot.best_chain, 1, Len(snapshot.best_chain) - 1),
                            request.arg)
         IN  IF \E n \in 1..Len(hashes) : hashes[n] \notin view
             THEN [NoResponse EXCEPT !.outcome = "panicked"]
             ELSE [NoResponse EXCEPT !.outcome = "done", !.written = TRUE, !.chain = hashes]
    ELSE [NoResponse EXCEPT !.outcome = "done", !.written = TRUE, !.ledger = snapshot.ledger]

\* the task reads the values moved into it when it was spawned
TaskView(task, S) == task.snapshot

\* the views a secondary opened on the blocks opened can have caught up to
SecondaryViews(opened, primary) == {V \in SUBSET primary : opened \subseteq V}

NoSnapshot == ServerSnapshot(IndexerState_new(RootHash, GenesisLedger, FALSE))

\* a task that is over: the values moved into it are dropped with it
Dropped(task, state) ==
    [task EXCEPT !.state = state, !.snapshot = NoSnapshot, !.opened = {},
                 !.at_accept = NoResponse]

TaskIds(state) == {t \in 1..Len(tasks) : tasks[t].state = state}

InitServer ==
    /\ AccountOff
    /\ ConnOff
    /\ InitState(TRUE)
    /\ transition_frontier_length = MAINNET_TRANSITION_FRONTIER_K
    /\ prune_interval = None
    /\ ledger_update_freq = 1
    /\ env = [inputs |-> RootHash..ServerLen, reorder |-> ServerLen,
              reverse |-> FALSE, faults |-> TRUE, cap |-> MaxStream]
    /\ server = "loop"
    /\ receiver = [queue |-> <<>>, closed |-> FALSE, count |-> 0]
    /\ tasks = <<>>
    /\ scratch = {}
    /\ log = [delivered |-> <<>>, applied |-> <<>>]

IndexerUnchanged ==
    UNCHANGED <<best_tip, canonical_tip, diffs_map, root_branch, dangling_branches,
                indexer_store, blocks_processed, checkpoints, last_prune, result,
                last_pb, status>>

ConfigUnchanged ==
    UNCHANGED <<transition_frontier_length, prune_interval, ledger_update_freq, env,
                account, last_op, conn>>

\* the block receiver finds a file in the watched directory
Deliver(item) ==
    /\ server = "loop"
    /\ ~receiver.closed
    /\ receiver.count < env.cap
    /\ item.ok => item.block \in env.inputs
    /\ receiver' = [receiver EXCEPT !.queue = Append(@, item), !.count = @ + 1]
    /\ log' = IF item.ok THEN [log EXCEPT !.delivered = Append(@, item.block)] ELSE log
    /\ IndexerUnchanged
    /\ ConfigUnchanged
    /\ UNCHANGED <<server, tasks, scratch>>

\* the stream of the block receiver ends
CloseStream ==
    /\ server = "loop"
    /\ ~receiver.closed
    /\ receiver' = [receiver EXCEPT !.closed = TRUE]
    /\ IndexerUnchanged
    /\ ConfigUnchanged
    /\ UNCHANGED <<server, tasks, scratch, log>>

\* the arm of the select loop that takes the next item of the block receiver
ServerRecv ==
    /\ server = "loop"
    /\ IF receiver.queue = <<>>
       THEN /\ receiver.closed
            /\ server' = "exit_ok"
            /\ IndexerUnchanged
            /\ UNCHANGED <<receiver, log>>
       ELSE LET item == Head(receiver.queue)
            IN  /\ receiver' = [receiver EXCEPT !.queue = Tail(@)]
                /\ IF ~item.ok
                   THEN /\ server' = "exit_err"
                        /\ result' = "RecvErr"
                        /\ UNCHANGED <<best_tip, canonical_tip, diffs_map, root_branch,
                                       dangling_branches, indexer_store, blocks_processed,
                                       checkpoints, last_prune, last_pb, status, log>>
                   ELSE \E write_fails \in (IF env.faults THEN BOOLEAN ELSE {FALSE}) :
                        \E r \in {add_block([State EXCEPT !.write_fails = write_fails],
                                            PrecomputedBlock(item.block))} :
                            /\ best_tip' = r.state.best_tip
                            /\ canonical_tip' = r.state.canonical_tip
                            /\ diffs_map' = r.state.diffs_map
                            /\ root_branch' = r.state.root_branch
                            /\ dangling_branches' = r.state.dangling_branches
                            /\ indexer_store' = r.state.indexer_store
                            /\ blocks_processed' = r.state.blocks_processed
                            /\ checkpoints' = r.state.checkpoints
                            /\ last_prune' = r.state.last_prune
                            /\ result' = r.ret
                            /\ last_pb' = item.block
                            /\ status' = IF r.ret = "Panic" THEN "panicked" ELSE "running"
                            /\ server' = IF r.ret = "Panic" THEN "panicked"
                                         ELSE IF r.ret \in {"Err", "StoreErr"} THEN "exit_err"
                                         ELSE "loop"
                            /\ log' = IF r.ret \in ExtensionType
                                      THEN [log EXCEPT !.applied = Append(@, item.block)]
                                      ELSE log
    /\ ConfigUnchanged
    /\ UNCHANGED <<tasks, scratch>>

\* the arm of the select loop that accepts a connection and spawns its task
ServerAccept(request) ==
    /\ server = "loop"
    /\ Len(tasks) < MaxConns
    /\ LET secondary_path == Len(tasks) + 1
           snapshot == ServerSnapshot(State)
       IN  /\ tasks' = Append(tasks,
                 [state |-> "running", secondary_path |-> secondary_path,
                  request |-> request, snapshot |-> snapshot,
                  opened |-> indexer_store.blocks,
                  at_accept |-> handle_conn(request, snapshot, indexer_store.blocks),
                  response |-> NoResponse])
           /\ scratch' = scratch \cup {secondary_path}
    /\ IndexerUnchanged
    /\ ConfigUnchanged
    /\ UNCHANGED <<server, receiver, log>>

\* a spawned task runs the handler to its end and then removes its directory
TaskFinish(t) ==
    /\ t \in TaskIds("running")
    /\ \E view \in SecondaryViews(tasks[t].opened, indexer_store.blocks) :
       \E response \in {handle_conn(tasks[t].request, TaskView(tasks[t], State), view)} :
           /\ tasks' = [tasks EXCEPT ![t] =
                           [Dropped(tasks[t], response.outcome) EXCEPT !.response = response]]
           /\ scratch' = IF response.outcome = "panicked" THEN scratch
                         ELSE scratch \ {tasks[t].secondary_path}
    /\ IndexerUnchanged
    /\ ConfigUnchanged
    /\ UNCHANGED <<server, receiver, log>>

\* run has returned: the runtime is dropped and the tasks still running are cancelled
RuntimeShutdown ==
    /\ server \in {"exit_ok", "exit_err", "panicked"}
    /\ TaskIds("running") # {}
    /\ tasks' = [t \in 1..Len(tasks) |->
                    IF tasks[t].state = "running" THEN Dropped(tasks[t], "aborted")
                    ELSE tasks[t]]
    /\ IndexerUnchanged
    /\ ConfigUnchanged
    /\ UNCHANGED <<server, receiver, scratch, log>>

NextServer ==
    \/ \E item \in Items : Deliver(item)
    \/ CloseStream
    \/ ServerRecv
    \/ \E request \in Requests : ServerAccept(request)
    \/ \E t \in 1..MaxConns : TaskFinish(t)
    \/ RuntimeShutdown

SpecServer == InitServer /\ [][NextServer]_vars

\* C17: an error from add_block or an error item of the block receiver does not stop
\* the server loop: the step that meets the error leaves the loop running and the
\* forest as it was.
C17_ErrorsDoNotStopTheLoop ==
    [][(server = "loop" /\ result' \in {"RecvErr", "Err", "StoreErr"} /\ receiver' # receiver)
           => (server' = "loop" /\ ForestUnchanged)]_vars

\* C18: once the stream of the block receiver has ended and the server loop has been
\* left, the loop was left with success and every block delivered has been applied,
\* in arrival order.
C18_StreamEndExitsWithAllApplied ==
    (receiver.closed /\ server # "loop")
        => (server = "exit_ok" /\ log.applied = log.delivered)

\* C19: the response of a query is the one its handler would have given at the moment
\* the connection was accepted and the secondary view opened, whatever add_block has
\* done since, and the step that serves it leaves the indexer state and the store as
\* they are.
C19_ResponseIsAcceptSnapshot ==
    [][\A t \in 1..Len(tasks) :
           (tasks[t].state = "running" /\ tasks'[t].state \in {"done", "failed", "panicked"})
               => (/\ tasks'[t].response = tasks[t].at_accept
                   /\ UNCHANGED <<root_branch, dangling_branches, best_tip, canonical_tip,
                                  diffs_map, indexer_store, blocks_processed>>)]_vars

\* C20: the scratch directory of a query is gone once its handler has returned, with
\* success or with an error, and once its task has been aborted by the shutdown that
\* follows the end of the stream; two running tasks never have the same scratch
\* directory.
C20_ScratchDirectoriesRemoved ==
    /\ \A t \in TaskIds("done") \cup TaskIds("failed") :
           tasks[t].secondary_path \notin scratch
    /\ server = "exit_ok" =>
           \A t \in TaskIds("aborted") : tasks[t].secondary_path \notin scratch
    /\ \A t, u \in TaskIds("running") :
           t # u => tasks[t].secondary_path # tasks[u].secondary_path

\* the blocks of a chain that have a record in the store, in the order of the chain
Available(chain, blocks) == SelectSeq(chain, LAMBDA h : h \in blocks)

\* C21: the response to best_chain N is the list of the N topmost blocks of the best
\* chain captured at the accept, the best tip first and going down toward the root,
\* and all the blocks the store has of it when they are fewer than N.
C21_BestChainTopDown ==
    [][\A t \in 1..Len(tasks) :
           (/\ tasks[t].state = "running"
            /\ tasks[t].request.command = "best_chain"
            /\ tasks'[t].state # "running"
            /\ tasks'[t].state # "aborted")
               => (/\ tasks'[t].response.outcome = "done"
                   /\ tasks'[t].response.chain =
                          Take(Available(Reverse(tasks[t].snapshot.best_chain),
                                         tasks[t].opened),
                               tasks[t].request.arg))]_vars

\* C22: a query that has failed (unknown command, argument that does not parse, read of
\* the store that fails) has had its failure written to the client, and the step on
\* which it fails leaves the server loop running as it was.
C22_QueryFailureReported ==
    [][\A t \in 1..Len(tasks) :
           (tasks[t].state = "running" /\ tasks'[t].state \in {"failed", "panicked"})
               => (tasks'[t].response.written /\ UNCHANGED server)]_vars

(***************************************************************************)
(* Accounts: the update functions of Account, applied to one account.      *)
(***************************************************************************)
AmountMax == Pow2(AmountWidth) - 1

NonceMax == Pow2(NonceWidth) - 1

\* addition of two Amount values, of a Nonce and 1
AmountAdd(a, b) == (a + b) % Pow2(AmountWidth)

NonceAdd(n, m) == (n + m) % Pow2(NonceWidth)

PublicKeys == {1, 2}

Account_empty(public_key) ==
    [public_key |-> public_key, balance |-> 0, nonce |-> 0, delegate |-> None]

NoAccount == [some |-> FALSE, account |-> Account_empty(0)]

Some(acct) == [some |-> TRUE, account |-> acct]

Account_from_payment(pre, amount, deduction) ==
    IF deduction /\ amount > pre.balance THEN NoAccount
    ELSE Some([pre EXCEPT !.balance = IF deduction THEN pre.balance - amount
                                      ELSE AmountAdd(pre.balance, amount),
                          !.nonce = NonceAdd(pre.nonce, 1)])

Account_from_coinbase(pre, amount) ==
    [pre EXCEPT !.balance = AmountAdd(pre.balance, amount)]

\* a fee equal to the balance is refused
Account_from_fee_strict(pre, amount, deduction) ==
    IF deduction /\ amount >= pre.balance THEN NoAccount
    ELSE Some([pre EXCEPT !.balance = IF deduction THEN pre.balance - amount
                                      ELSE AmountAdd(pre.balance, amount)])

Account_from_fee(pre, amount, deduction) ==
    IF deduction /\ amount > pre.balance THEN NoAccount
    ELSE Some([pre EXCEPT !.balance = IF deduction THEN pre.balance - amount
                                      ELSE AmountAdd(pre.balance, amount)])

Account_from_delegation(pre, delegate) ==
    [pre EXCEPT !.nonce = NonceAdd(pre.nonce, 1), !.delegate = delegate]

InitAccount ==
    /\ ServerOff
    /\ ConnOff
    /\ InitState(FALSE)
    /\ transition_frontier_length = None
    /\ prune_interval = None
    /\ ledger_update_freq = 1
    /\ env = [inputs |-> {}, reorder |-> 0, reverse |-> FALSE, faults |-> FALSE, cap |-> 0]
    /\ \E public_key \in PublicKeys : account = Account_empty(public_key)
    /\ last_op = [name |-> "none", amount |-> 0, deduction |-> FALSE, delegate |-> None,
                  pre |-> account, some |-> FALSE]

RestUnchanged ==
    /\ IndexerUnchanged
    /\ UNCHANGED <<transition_frontier_length, prune_interval, ledger_update_freq, env,
                   server, receiver, tasks, scratch, log, conn>>

\* the caller keeps its account when the update yields None
Payment(amount, deduction) ==
    /\ \E r \in {Account_from_payment(account, amount, deduction)} :
           /\ account' = IF r.some THEN r.account ELSE account
           /\ last_op' = [name |-> "payment", amount |-> amount, deduction |-> deduction,
                          delegate |-> None, pre |-> account, some |-> r.some]
    /\ RestUnchanged

Coinbase(amount) ==
    /\ account' = Account_from_coinbase(account, amount)
    /\ last_op' = [name |-> "coinbase", amount |-> amount, deduction |-> FALSE,
                   delegate |-> None, pre |-> account, some |-> TRUE]
    /\ RestUnchanged

Fee(amount, deduction) ==
    /\ \E r \in {Account_from_fee(account, amount, deduction)} :
           /\ account' = IF r.some THEN r.account ELSE account
           /\ last_op' = [name |-> "fee", amount |-> amount, deduction |-> deduction,
                          delegate |-> None, pre |-> account, some |-> r.some]
    /\ RestUnchanged

Delegation(delegate) ==
    /\ account' = Account_from_delegation(account, delegate)
    /\ last_op' = [name |-> "delegation", amount |-> 0, deduction |-> FALSE,
                   delegate |-> delegate, pre |-> account, some |-> TRUE]
    /\ RestUnchanged

NextAccount ==
    \/ \E amount \in 0..AmountMax, deduction \in BOOLEAN : Payment(amount, deduction)
    \/ \E amount \in 0..AmountMax : Coinbase(amount)
    \/ \E amount \in 0..AmountMax, deduction \in BOOLEAN : Fee(amount, deduction)
    \/ \E delegate \in PublicKeys : Delegation(delegate)

SpecAccount == InitAccount /\ [][NextAccount]_vars

C24_NonceBumpedByPaymentAndDelegation ==
    /\ (last_op.name \in {"coinbase", "fee"}) => account.nonce = last_op.pre.nonce
    /\ (last_op.name = "payment" /\ last_op.some) => account.nonce = last_op.pre.nonce + 1
    /\ (last_op.name = "delegation") =>
           /\ account.nonce = last_op.pre.nonce + 1
           /\ account.balance = last_op.pre.balance
           /\ account.delegate = last_op.delegate

\* the call add_block(h) gets past the duplicate gate and inserts h into the root branch
ExtendsRoot(h) ==
    /\ Running
    /\ ~is_block_already_in_db(State, PrecomputedBlock(h))
    /\ is_length_within_root_bounds(State, PrecomputedBlock(h))
    /\ simple_extension(root_branch, PrecomputedBlock(h)).some

\* the tree of a dangling branch once its root hangs under the block h
Grafted(branch, h) ==
    {IF e[2] = 0 THEN <<e[1], h>> ELSE e : e \in AbstractTree(branch)}

\* C26: when add_block(pb) inserts pb into the root branch, exactly the dangling
\* branches whose root has pb as parent are grafted under pb and leave the dangling
\* list, the other dangling branches stay as they are and in their order, and the call
\* returns RootComplex when a branch was grafted and RootSimple otherwise.
C26_RootExtensionMergesChildren ==
    [][ExtendsRoot(last_pb') =>
          /\ result' = IF Bridged(last_pb') # {} THEN "RootComplex" ELSE "RootSimple"
          /\ dangling_branches' = RemoveAt(dangling_branches, Bridged(last_pb'))
          /\ AbstractTree(root_branch') =
                 AbstractTree(root_branch) \cup {<<last_pb', ParentOf(last_pb')>>}
                   \cup UNION {Grafted(dangling_branches[n], last_pb') :
                                  n \in Bridged(last_pb')}]_vars

\* the positions of the dangling branches whose root is the block itself
RootedAt(h) ==
    {n \in 1..Len(dangling_branches) : root_block(dangling_branches[n]).state_hash = h}

\* C27: add_block of a block that is the root of a dangling branch returns
\* BlockNotAdded and leaves root branch, dangling branches and tips as they were.
C27_DanglingRootDuplicateNotAdded ==
    [][(Running /\ RootedAt(last_pb') # {})
           => (result' = "BlockNotAdded" /\ ForestUnchanged)]_vars

\* the call reaches update_dangling: the block is new, does not extend the root branch
\* and extends a dangling branch
ExtendsDangling(h) ==
    /\ Running
    /\ ~is_block_already_in_db(State, PrecomputedBlock(h))
    /\ ~(/\ is_length_within_root_bounds(State, PrecomputedBlock(h))
         /\ root_extension(State, PrecomputedBlock(h)).ret # "None")
    /\ dangling_extension(State, PrecomputedBlock(h)).kind = "ext"

\* C28: in update_dangling, wherever the extended branch stands, exactly the other
\* dangling branches whose root is a child of the added block are merged onto the new
\* node and removed, the other branches keep their content and order, no index is out
\* of bounds, and the extended branch is pushed back once, at the end of the list.
C28_UpdateDanglingMergesExactly ==
    [][LET ext == dangling_extension(State, PrecomputedBlock(last_pb'))
           others == Bridged(last_pb') \ {ext.index}
       IN  (ExtendsDangling(last_pb') /\ others # {})
              => /\ status' = "running"
                 /\ result' = "DanglingComplex"
                 /\ Len(dangling_branches') = Len(dangling_branches) - Cardinality(others)
                 /\ SubSeq(dangling_branches', 1, Len(dangling_branches') - 1)
                       = RemoveAt(dangling_branches, others \cup {ext.index})
                 /\ AbstractTree(dangling_branches'[Len(dangling_branches')])
                       = AbstractTree(ext.branches[ext.index]) \cup
                         UNION {Grafted(dangling_branches[n], last_pb') : n \in others}]_vars

\* the nodes of a branch: state hash, state hash of the parent node (0 at the root) and
\* height; the children of a node are the nodes that name it as parent
NodeFacts(branch) ==
    {<<branch[i].state_hash,
       IF ValidId(branch, branch[i].up) THEN branch[branch[i].up].state_hash ELSE 0,
       branch[i].height>> : i \in 1..Len(branch)}

\* the call attached the block to the root branch and merged no dangling branch
AttachedOnly(base) ==
    /\ Running
    /\ \/ result' = "RootSimple"
       \/ /\ result' = "Err"
          /\ Bridged(last_pb') = {}
          /\ Len(root_branch') = Len(base) + 1

\* the root branch is the base plus one node for the added block under its parent
InsertionOnly(base) ==
    /\ Len(root_branch') = Len(base) + 1
    /\ \E parent \in 1..Len(base) :
          /\ base[parent].state_hash = ParentOf(last_pb')
          /\ NodeFacts(root_branch') =
                NodeFacts(base) \cup
                {<<last_pb', ParentOf(last_pb'), base[parent].height + 1>>}
    /\ dangling_branches' = dangling_branches

C30_CanonicityMarks ==
    [][indexer_store'.some =>
         LET marks == indexer_store.canonicity
             marks_after == indexer_store'.canonicity
             best_chain == {best_tip'} \cup SeqRange(ancestor_ids(root_branch', best_tip'))
             canonical == {canonical_tip'} \cup
                          SeqRange(ancestor_ids(root_branch', canonical_tip'))
         IN  \A h \in DOMAIN marks_after :
                (h \notin DOMAIN marks \/ marks[h] # marks_after[h])
                   => /\ marks_after[h] = "Canonical"
                         => \E i \in canonical : root_branch'[i].state_hash = h
                      /\ marks_after[h] = "Orphaned"
                         => \E i \in (1..Len(root_branch')) \ best_chain :
                               /\ root_branch'[i].state_hash = h
                               /\ root_branch'[i].height <= root_branch'[canonical_tip'].height]_vars

\* C31: diffs_map holds no entry for a block of the root branch whose height is at or
\* below the height of canonical_tip.
C31_NoDiffAtOrBelowCanonicalTip ==
    (Running /\ ValidId(root_branch, canonical_tip)) =>
        \A i \in 1..Len(root_branch) :
            root_branch[i].height <= root_branch[canonical_tip].height
                => root_branch[i].state_hash \notin DOMAIN diffs_map

\* the loop of dangling_extension without the blockchain-length guard
RECURSIVE DanglingLoopUnguarded(_, _, _)
DanglingLoopUnguarded(dbs, index, pb) ==
    IF index > Len(dbs)
    THEN [kind |-> "none", branches |-> dbs, index |-> 0, id |-> 0, direction |-> "None"]
    ELSE LET try == TryBranch(dbs[index], pb)
         IN  IF try.kind = "skip" THEN DanglingLoopUnguarded(dbs, index + 1, pb)
             ELSE [kind |-> try.kind,
                   branches |-> [dbs EXCEPT ![index] = try.branch],
                   index |-> index, id |-> try.id, direction |-> try.direction]

\* the dispatch of add_block with both blockchain-length guards removed
add_block_unguarded(S, pb) ==
    LET S0 == prune_root_branch(S)
        S1 == [S0 EXCEPT
                 !.indexer_store = IF @.some THEN store_add_block(@, pb) ELSE @,
                 !.blocks_processed = @ + 1]
        root == root_extension(S1, pb)
        dang == DanglingLoopUnguarded(S1.dangling_branches, 1, pb)
        S2 == [S1 EXCEPT !.dangling_branches = dang.branches]
        S3 == [S1 EXCEPT !.diffs_map =
                  Put(@, pb.state_hash, LedgerDiff_from_precomputed_block(pb))]
    IN  IF is_block_already_in_db(S0, pb) THEN [state |-> S0, ret |-> "BlockNotAdded"]
        ELSE IF S0.indexer_store.some /\ S0.write_fails
             THEN [state |-> S0, ret |-> "StoreErr"]
        ELSE IF root.ret # "None" THEN root
        ELSE IF dang.kind = "err" THEN [state |-> S1, ret |-> "Err"]
        ELSE IF dang.kind = "ext"
             THEN update_dangling(S2, pb, dang.index, dang.id, dang.direction)
        ELSE new_dangling(S3, pb)

\* C32: the blockchain-length guards only skip parent-hash checks that fail anyway:
\* every call returns the value and leaves the forest that the dispatch without the
\* guards returns and leaves, also for blocks and branches without a blockchain_length.
C32_LengthGuardsSkipOnlyDoomedChecks ==
    [][Running =>
         \E r \in {add_block_unguarded(State, PrecomputedBlock(last_pb'))} :
            /\ result' = r.ret
            /\ root_branch' = r.state.root_branch
            /\ dangling_branches' = r.state.dangling_branches
            /\ best_tip' = r.state.best_tip
            /\ canonical_tip' = r.state.canonical_tip]_vars

get_block_status(S, state_hash) ==
    IF state_hash \in DOMAIN S.diffs_map THEN "Pending"
    ELSE IF S.indexer_store.some
         THEN (IF state_hash \in DOMAIN S.indexer_store.canonicity
               THEN S.indexer_store.canonicity[state_hash] ELSE "None")
         ELSE "None"

best_ledger(S) ==
    LET S1 == update_canonical(S)
        hash == canonical_tip_block(S1).state_hash
    IN  IF S1.panicked THEN [state |-> S1, ret |-> "Panic"]
        ELSE IF S1.indexer_store.some /\ store_has_ledger(S1.indexer_store, hash)
             THEN [state |-> S1, ret |-> "Some"]
             ELSE [state |-> S1, ret |-> "None"]

\* the indexer state with the store taken away
WithoutStore == [State EXCEPT !.indexer_store = NoStore]

\* C33: a call on a block not added before, in a run with a store that never fails,
\* returns the value and leaves the root branch, dangling branches, best_tip,
\* canonical_tip and diffs_map that the same call gives without the store; without a
\* store best_ledger returns no data and get_block_status none for a block with no
\* diffs entry.
C33_StoreIsOptional ==
    [][(Running /\ indexer_store.some /\ last_pb' \notin indexer_store.blocks) =>
         \E r \in {add_block(WithoutStore, PrecomputedBlock(last_pb'))} :
            /\ result' = r.ret
            /\ root_branch' = r.state.root_branch
            /\ dangling_branches' = r.state.dangling_branches
            /\ best_tip' = r.state.best_tip
            /\ canonical_tip' = r.state.canonical_tip
            /\ diffs_map' = r.state.diffs_map
            /\ r.ret # "Panic" =>
                  /\ best_ledger(r.state).ret = "None"
                  /\ \A h \in ForkInputs \ DOMAIN r.state.diffs_map :
                        get_block_status(r.state, h) = "None"]_vars

\* C34: best_tip and canonical_tip refer to nodes of the root branch, and the root of
\* the root branch is canonical_tip or an ancestor of it, also after a prune and after
\* the merge of dangling branches.
C34_TipsAreRootBranchNodes ==
    /\ ValidId(root_branch, best_tip)
    /\ ValidId(root_branch, canonical_tip)
    /\ InSubtree(root_branch, 1, canonical_tip)

\* C35: a canonicity mark of the store never changes (canonical stays canonical,
\* orphaned stays orphaned), and the new canonical_tip is the previous canonical_tip
\* or a descendant of it.
C35_CanonicityIsFinal ==
    [][(Running /\ status' = "running") =>
         /\ \A h \in DOMAIN indexer_store.canonicity :
               indexer_store'.canonicity[h] = indexer_store.canonicity[h]
         /\ \E i \in {canonical_tip'} \cup
                      SeqRange(ancestor_ids(root_branch', canonical_tip')) :
               root_branch'[i].state_hash = root_branch[canonical_tip].state_hash]_vars

\* C36: with a store, when a root extension reaches update_canonical at a height that
\* is a multiple of ledger_update_freq, the store holds the ledger of the canonical
\* tip it loads, and the call does not abort.
C36_CheckpointLedgerPresent ==
    [][LET pb == PrecomputedBlock(last_pb')
           S0 == prune_root_branch(State)
           S1 == [S0 EXCEPT !.indexer_store = store_add_block(@, pb)]
           ext == simple_extension(S1.root_branch, pb)
           S2 == update_best_tip([S1 EXCEPT !.root_branch = ext.branch])
       IN  (/\ Running
            /\ indexer_store.some
            /\ ~is_block_already_in_db(S0, pb)
            /\ is_length_within_root_bounds(S1, pb)
            /\ ext.some
            /\ ValidId(S2.root_branch, S2.canonical_tip)
            /\ best_tip_block(S2).height % ledger_update_freq = 0)
              => /\ store_has_ledger(S2.indexer_store, canonical_tip_block(S2).state_hash)
                 /\ result' # "Panic"]_vars

\* the number of nodes of the forest
TotalNodes ==
    LET RECURSIVE Count(_)
        Count(n) == IF n = 0 THEN 0 ELSE Len(Forest[n]) + Count(n - 1)
    IN  Count(Len(Forest))

\* C37: without pruning, a call that returns a value other than BlockNotAdded adds
\* exactly one node to the forest, its block is then in exactly one branch, every
\* other call adds none, and no block of the forest leaves it (a dangling branch goes
\* away only by being merged).
C37_NoAcceptedBlockLost ==
    [][(Running /\ status' = "running" /\ transition_frontier_length = None) =>
         /\ TotalNodes' = TotalNodes +
               (IF result' \in {"BlockNotAdded", "StoreErr", "Err"} THEN 0 ELSE 1)
         /\ result' \notin {"BlockNotAdded", "StoreErr", "Err"}
               => Cardinality({n \in 1..Len(Forest') :
                                 NodeIdsWithHash(Forest'[n], last_pb') # {}}) = 1
         /\ ForestHashes \subseteq ForestHashes']_vars

\* C38: no account update wraps around: a credit (a payment or fee without deduction,
\* a coinbase) leaves exactly the balance plus the amount, and a payment or a
\* delegation leaves exactly the nonce plus 1.
C38_UpdatesNeverWrap ==
    /\ (\/ last_op.name = "coinbase"
        \/ last_op.name \in {"payment", "fee"} /\ ~last_op.deduction)
          => account.balance = last_op.pre.balance + last_op.amount
    /\ (\/ last_op.name = "delegation"
        \/ last_op.name = "payment" /\ last_op.some)
          => account.nonce = last_op.pre.nonce + 1

(***************************************************************************)
(* The request bytes of handle_conn.  A stream is a sequence of symbols:   *)
(* the space and NUL bytes, a digit, a letter, and the command words and a *)
(* valid address, each written as one symbol that stands for its bytes.    *)
(***************************************************************************)
MaxRequestLen == 4

SP == "SP"

NUL == "NUL"

Words == {"account", "best_chain", "best_ledger", "summary", "addr"}

Symbols == Words \cup {"1", "x", SP, NUL}

Streams == UNION {[1..n -> Symbols] : n \in 0..MaxRequestLen}

\* reader.read_until(0, buffer): the bytes up to and with the first NUL, or all of
\* them when the peer closes before sending one
read_until_NUL(stream) ==
    IF \E n \in 1..Len(stream) : stream[n] = NUL
    THEN SubSeq(stream, 1, Min({n \in 1..Len(stream) : stream[n] = NUL}))
    ELSE stream

\* buffer.split(byte == 32): the pieces between the spaces, at least one
RECURSIVE split(_)
split(buffer) ==
    IF \E n \in 1..Len(buffer) : buffer[n] = SP
    THEN LET at == Min({n \in 1..Len(buffer) : buffer[n] = SP})
         IN  <<SubSeq(buffer, 1, at - 1)>> \o split(SubSeq(buffer, at + 1, Len(buffer)))
    ELSE <<buffer>>

\* data_buffer[..data_buffer.len() - 1]: a word that loses its last byte is no word
DropLastByte(data_buffer) ==
    LET front == SubSeq(data_buffer, 1, Len(data_buffer) - 1)
    IN  IF data_buffer[Len(data_buffer)] \in Words THEN Append(front, "cut") ELSE front

\* str::parse::<usize>: a non-empty run of digits
RECURSIVE parse_usize(_)
parse_usize(text) ==
    IF text = <<>> \/ \E n \in 1..Len(text) : text[n] # "1" THEN Unparsable
    ELSE IF Len(text) = 1 THEN 1
    ELSE 10 * parse_usize(SubSeq(text, 1, Len(text) - 1)) + 1

\* handle_conn from the bytes of the request to its end; the ledger cannot be written
\* to the empty path
handle_request(stream, known, snapshot, view) ==
    LET buffers == split(read_until_NUL(stream))
        command == buffers[1]
        text == DropLastByte(buffers[2])
    IN  IF command = <<"summary", NUL>>
        THEN handle_conn([command |-> "summary", arg |-> None], snapshot, view)
        ELSE IF command \notin {<<"account">>, <<"best_chain">>, <<"best_ledger">>}
        THEN [NoResponse EXCEPT !.outcome = "failed"]
        ELSE IF Len(buffers) < 2 \/ buffers[2] = <<>>
        THEN [NoResponse EXCEPT !.outcome = "panicked"]
        ELSE IF command = <<"account">>
        THEN (IF text # <<"addr">> THEN [NoResponse EXCEPT !.outcome = "failed"]
              ELSE [NoResponse EXCEPT !.outcome = "done", !.written = known])
        ELSE IF command = <<"best_chain">>
        THEN handle_conn([command |-> "best_chain", arg |-> parse_usize(text)],
                         snapshot, view)
        ELSE IF text = <<>> THEN [NoResponse EXCEPT !.outcome = "failed"]
        ELSE handle_conn([command |-> "best_ledger", arg |-> 1], snapshot, view)

\* a connection with its request bytes, on the freshly constructed indexer
InitRequest ==
    /\ ServerOff
    /\ AccountOff
    /\ InitState(TRUE)
    /\ transition_frontier_length = None
    /\ prune_interval = None
    /\ ledger_update_freq = 1
    /\ env = [inputs |-> {}, reorder |-> 0, reverse |-> FALSE, faults |-> FALSE, cap |-> 0]
    /\ \E stream \in Streams, known \in BOOLEAN :
          conn = [stream |-> stream, known |-> known, outcome |-> "open", written |-> FALSE]

HandleConn ==
    /\ conn.outcome = "open"
    /\ \E r \in {handle_request(conn.stream, conn.known, ServerSnapshot(State),
                                 {RootHash})} :
          conn' = [conn EXCEPT !.outcome = r.outcome, !.written = r.written]
    /\ IndexerUnchanged
    /\ UNCHANGED <<transition_frontier_length, prune_interval, ledger_update_freq, env,
                   server, receiver, tasks, scratch, log, account, last_op>>

NextRequest == HandleConn

SpecRequest == InitRequest /\ [][NextRequest]_vars

\* C39: whatever bytes the client sends, handle_conn ends by writing a response or by
\* returning an error (for an unknown account the response is empty) and never
\* aborts; each command framed as token, space, arguments, NUL is recognised.
C39_EveryRequestAnswered ==
    conn.outcome \notin {"off", "open"} =>
        /\ conn.outcome \in {"done", "failed"}
        /\ conn.outcome = "done"
              => (conn.written \/ (conn.stream[1] = "account" /\ ~conn.known))
        /\ conn.stream \in {<<"summary", NUL>>, <<"account", SP, "addr", NUL>>,
                            <<"best_chain", SP, "1", NUL>>,
                            <<"best_ledger", SP, "x", NUL>>}
              => conn.outcome = "done"

=============================================================================
